---- MODULE Spec2Model ----
(***************************************************************************)
(* ShopAI: the product retrieval, filtering, scoring and ranking pipeline  *)
(* of modules/shopping.py, with the session state of modules/state.py and  *)
(* the multi-item fan-out of ShopAI.py.                                    *)
(*                                                                         *)
(* A Python str is a sequence of one-character strings, so that lower(),   *)
(* strip(), the regular expressions and the substring tests are computed   *)
(* character by character as the code computes them.                       *)
(***************************************************************************)
EXTENDS Integers, Sequences, FiniteSets, TLC

VARIABLES
    query,            \* clean_search_query: the argument
    cleaned,          \* <<clean_search_query(query)>> once computed, <<>> before
    recleaned,        \* <<clean_search_query(cleaned)>> once computed, <<>> before
    results,          \* remove_duplicates: the argument
    d_idx,            \* remove_duplicates: position of the for loop (next element)
    seen_ids,         \* remove_duplicates: seen_ids
    seen_titles,      \* remove_duplicates: seen_titles
    unique_results,   \* remove_duplicates: unique_results
    product,          \* the offer handed to a predicate of the Filter Chain
    item,             \* the item name handed with it
    site_pref,        \* the retailer preference handed with it
    included,         \* <<should_include_product(product, item, site_pref)>>, <<>> before the call
    correct_site,     \* <<is_from_correct_site(product, site_pref)>>, <<>> before the call
    final_items,      \* st.session_state.final_items: the items of the search
    sess_site_pref,   \* st.session_state.site_pref
    sess_sort_pref,   \* st.session_state.sort_pref
    provider,         \* what the shopping-search provider answers for each item
    workers,          \* one get_shopping_results call per item: its position and locals
    show_initial_count, \* st.session_state.show_initial_count (absent reads as True)
    info_shown,       \* the calls whose st.info "Found n initial results" was displayed
    errors_shown,     \* the calls whose st.error "Error performing search" was displayed
    all_results,      \* <<all_results>> once the futures are collected, <<>> before
    product_choice,   \* get_enhanced_direct_link: the chosen offer
    link_site_pref,   \* get_enhanced_direct_link: site_pref
    sellers_reply,    \* what the product-detail provider answers to the lookup
    link_pc,          \* get_enhanced_direct_link: position in the function
    lookups,          \* number of requests sent to the product-detail provider
    online_sellers,   \* get_enhanced_direct_link: online_sellers
    direct_link,      \* <<the returned link>> once returned, <<>> before
    link_raised,      \* an exception left get_enhanced_direct_link
    mode,             \* st.session_state.mode
    mode_last,        \* st.session_state.mode_last
    extracted_items,  \* st.session_state.extracted_items
    filters_ready,    \* st.session_state.filters_ready
    why_explanations, \* st.session_state.why_explanations (its keys)
    to_sort,          \* sort_results: filtered_results
    sort_policy,      \* sort_results: sort_pref
    sort_item,        \* sort_results: item
    sort_out          \* <<the list sort_results returned>>, <<>> before the call

qvars == <<query, cleaned, recleaned>>
dvars == <<results, d_idx, seen_ids, seen_titles, unique_results>>
fvars == <<product, item, site_pref, included, correct_site>>
pvars == <<final_items, sess_site_pref, sess_sort_pref, provider, workers,
           show_initial_count, info_shown, errors_shown, all_results>>
lvars == <<product_choice, link_site_pref, sellers_reply, link_pc, lookups,
           online_sellers, direct_link, link_raised>>
svars == <<mode, mode_last, extracted_items, filters_ready, why_explanations>>
tvars == <<to_sort, sort_policy, sort_item, sort_out>>
vars == <<qvars, dvars, fvars, pvars, lvars, svars, tvars>>

\* what an action of one component leaves alone
notQuery == <<dvars, fvars, pvars, lvars, svars, tvars>>
notDedup == <<qvars, fvars, pvars, lvars, svars, tvars>>
notFilter == <<qvars, dvars, pvars, lvars, svars, tvars>>
notPipeline == <<qvars, dvars, fvars, lvars, svars, tvars>>
notLink == <<qvars, dvars, fvars, pvars, svars, tvars>>
notSort == <<qvars, dvars, fvars, pvars, lvars, svars>>
notSession == <<qvars, dvars, fvars, lvars, tvars, provider, workers, show_initial_count,
                info_shown, errors_shown, all_results>>

\* the variables of a component that is not the one under study
QueryIdle == query = <<>> /\ cleaned = <<>> /\ recleaned = <<>>

DedupIdle ==
    /\ results = <<>> /\ d_idx = 0 /\ seen_ids = {} /\ seen_titles = {}
    /\ unique_results = <<>>

FilterIdle ==
    /\ product = <<>> /\ item = <<>> /\ site_pref = <<>>
    /\ included = <<>> /\ correct_site = <<>>

PipelineIdle ==
    /\ final_items = <<>> /\ sess_site_pref = <<>> /\ sess_sort_pref = <<>>
    /\ provider = <<>> /\ workers = <<>> /\ show_initial_count = TRUE
    /\ info_shown = {} /\ errors_shown = {} /\ all_results = <<>>

LinkIdle ==
    /\ product_choice = <<>> /\ link_site_pref = <<>> /\ sellers_reply = <<>>
    /\ link_pc = "idle" /\ lookups = 0 /\ online_sellers = <<>>
    /\ direct_link = <<>> /\ link_raised = FALSE

SortIdle ==
    to_sort = <<>> /\ sort_policy = <<>> /\ sort_item = <<>> /\ sort_out = <<>>

\* initialize_state's defaults
SessionIdle ==
    /\ mode = "Chat with AI" /\ mode_last = "Chat with AI"
    /\ extracted_items = <<>> /\ filters_ready = FALSE /\ why_explanations = {}

\* the session while section 7 of ShopAI.py runs a search: the list was
\* confirmed and Find Best Picks was pressed
SessionSearching ==
    /\ mode = "Chat with AI" /\ mode_last = "Chat with AI"
    /\ extracted_items = final_items /\ filters_ready = TRUE /\ why_explanations = {}

(***************************************************************************)
(* Characters and the str methods the pipeline uses                        *)
(***************************************************************************)
UpperChars == <<"A", "B", "C", "D", "E", "F", "G", "H", "I", "J", "K", "L", "M",
                "N", "O", "P", "Q", "R", "S", "T", "U", "V", "W", "X", "Y", "Z">>
LowerChars == <<"a", "b", "c", "d", "e", "f", "g", "h", "i", "j", "k", "l", "m",
                "n", "o", "p", "q", "r", "s", "t", "u", "v", "w", "x", "y", "z">>
DigitChars == {"0", "1", "2", "3", "4", "5", "6", "7", "8", "9"}
SpaceChars == {" ", "\t"}

Range(s) == {s[i] : i \in 1..Len(s)}

\* the lowercase letter of each uppercase letter
LowerMap ==
    [c \in Range(UpperChars) |-> LowerChars[CHOOSE i \in 1..26 : UpperChars[i] = c]]

\* str.lower() on one character
LowerChar(c) == IF c \in DOMAIN LowerMap THEN LowerMap[c] ELSE c

\* str.lower()
Lower(s) == [i \in 1..Len(s) |-> LowerChar(s[i])]

\* \s of the re module
IsSpace(c) == c \in SpaceChars

\* \w of the re module: letters, digits and the underscore
WordChars == Range(UpperChars) \cup Range(LowerChars) \cup DigitChars \cup {"_"}

IsWordChar(c) == c \in WordChars

RECURSIVE LStrip(_)
LStrip(s) == IF s # <<>> /\ IsSpace(Head(s)) THEN LStrip(Tail(s)) ELSE s

RECURSIVE RStrip(_)
RStrip(s) ==
    IF s # <<>> /\ IsSpace(s[Len(s)]) THEN RStrip(SubSeq(s, 1, Len(s) - 1)) ELSE s

\* str.strip()
Strip(s) == RStrip(LStrip(s))

\* the two-space replace a hand-written collapse would use (one pass, left to right)
RECURSIVE CollapseSpacePairs(_)
CollapseSpacePairs(s) ==
    IF Len(s) < 2 THEN [i \in 1..Len(s) |-> IF IsSpace(s[i]) THEN " " ELSE s[i]]
    ELSE IF IsSpace(s[1]) /\ IsSpace(s[2])
         THEN <<" ">> \o CollapseSpacePairs(SubSeq(s, 3, Len(s)))
         ELSE <<IF IsSpace(s[1]) THEN " " ELSE s[1]>> \o CollapseSpacePairs(Tail(s))

\* re.sub(r'\s+', ' ', s): every maximal run of whitespace becomes one space
RECURSIVE CollapseSpaces(_)
CollapseSpaces(s) ==
    IF s = <<>> THEN <<>>
    ELSE IF IsSpace(Head(s))
         THEN <<" ">> \o CollapseSpaces(LStrip(s))
         ELSE <<Head(s)>> \o CollapseSpaces(Tail(s))

\* sub in s (Python's "sub in s")
Contains(s, sub) ==
    \E i \in 0..(Len(s) - Len(sub)) : SubSeq(s, i + 1, i + Len(sub)) = sub

\* str.replace(old, "") for a one-character old
RemoveChar(s, c) == SelectSeq(s, LAMBDA x : x # c)

\* \b between positions i and i+1 of s (0 <= i <= Len(s))
WordBoundary(s, i) ==
    LET before == i >= 1 /\ IsWordChar(s[i])
        after == i < Len(s) /\ IsWordChar(s[i + 1])
    IN before # after

\* does rf'\b{old}\b' with re.IGNORECASE match s at offset i (0-based)?
MatchesWordAt(s, old, i) ==
    /\ i + Len(old) <= Len(s)
    /\ Lower(SubSeq(s, i + 1, i + Len(old))) = old
    /\ WordBoundary(s, i)
    /\ WordBoundary(s, i + Len(old))

\* re.sub(rf'\b{old}\b', new, s, flags=re.IGNORECASE): leftmost matches, not overlapping
RECURSIVE SubWordFrom(_, _, _, _)
SubWordFrom(s, old, new, i) ==
    IF i >= Len(s) THEN <<>>
    ELSE IF MatchesWordAt(s, old, i)
         THEN new \o SubWordFrom(s, old, new, i + Len(old))
         ELSE <<s[i + 1]>> \o SubWordFrom(s, old, new, i + 1)

SubWord(s, old, new) == SubWordFrom(s, old, new, 0)

(***************************************************************************)
(* Query Builder (shopping.py, clean_search_query)                         *)
(***************************************************************************)
\* the replacements table, in dict order
replacements ==
    << <<(<<"m", "a", "c", "b", "o", "o", "k", " ", "p", "r", "o">>),
         (<<"M", "a", "c", "B", "o", "o", "k", " ", "P", "r", "o">>)>>,
       <<(<<"m", "a", "c", "b", "o", "o", "k", " ", "a", "i", "r">>),
         (<<"M", "a", "c", "B", "o", "o", "k", " ", "A", "i", "r">>)>>,
       <<(<<"i", "p", "h", "o", "n", "e">>), (<<"i", "P", "h", "o", "n", "e">>)>>,
       <<(<<"i", "p", "a", "d">>), (<<"i", "P", "a", "d">>)>> >>

RECURSIVE ApplyReplacements(_, _)
ApplyReplacements(s, k) ==
    IF k > Len(replacements) THEN s
    ELSE ApplyReplacements(SubWord(s, replacements[k][1], replacements[k][2]), k + 1)

\* a collapse that halves runs of whitespace instead of folding each into one space
clean_search_query_pairs(q) == ApplyReplacements(CollapseSpacePairs(Strip(q)), 1)

clean_search_query(q) == ApplyReplacements(CollapseSpaces(Strip(q)), 1)

(***************************************************************************)
(* Offers: one dict of the provider's shopping_results                     *)
(*   product_id, id, link, title, source : str, <<>> when absent or empty  *)
(*   price  : [kind, text]  kind "absent" (no key), "str", "other" (a JSON *)
(*            number or null, which has no .replace)                       *)
(*   rating, reviews : [kind, val]  kind "absent", "num", "null"           *)
(*            rating in tenths of a star, reviews a count                  *)
(*   second_hand_condition : whether the key is present                    *)
(*   numeric_price, relevance_score : the fields sort_results adds         *)
(***************************************************************************)
Absent == [kind |-> "absent", val |-> 0]
Num(n) == [kind |-> "num", val |-> n]
Null == [kind |-> "null", val |-> 0]

NoPrice == [kind |-> "absent", text |-> <<>>]
PriceStr(s) == [kind |-> "str", text |-> s]
PriceOther == [kind |-> "other", text |-> <<>>]

Offer(pid, id, link, title, price, source, rating, reviews, second) ==
    [product_id |-> pid, id |-> id, link |-> link, title |-> title, price |-> price,
     source |-> source, rating |-> rating, reviews |-> reviews,
     second_hand_condition |-> second,
     numeric_price |-> Absent, relevance_score |-> Absent]

(***************************************************************************)
(* Deduplicator (shopping.py, remove_duplicates)                           *)
(***************************************************************************)
\* result.get("product_id") or result.get("id") or result.get("link", "")
DedupId(result) ==
    IF result.product_id # <<>> THEN result.product_id
    ELSE IF result.id # <<>> THEN result.id
    ELSE result.link

\* re.sub(r'\s+', ' ', result.get("title", "").lower().strip()).strip()
NormalizedTitle(result) == Strip(CollapseSpaces(Strip(Lower(result.title))))

\* a loop body that records the title of a kept offer without lowercasing it
DedupBodyRawTitle(st, result) ==
    IF DedupId(result) \notin st.seen_ids /\ NormalizedTitle(result) \notin st.seen_titles
    THEN [seen_ids |-> st.seen_ids \cup {DedupId(result)},
          seen_titles |-> st.seen_titles \cup {Strip(CollapseSpaces(Strip(result.title)))},
          unique_results |-> Append(st.unique_results, result)]
    ELSE st

\* a loop body that keeps an offer when either key is new
DedupBodyEither(st, result) ==
    IF DedupId(result) \notin st.seen_ids \/ NormalizedTitle(result) \notin st.seen_titles
    THEN [seen_ids |-> st.seen_ids \cup {DedupId(result)},
          seen_titles |-> st.seen_titles \cup {NormalizedTitle(result)},
          unique_results |-> Append(st.unique_results, result)]
    ELSE st

\* one iteration of the for loop on the loop state st
DedupBody(st, result) ==
    IF DedupId(result) \notin st.seen_ids /\ NormalizedTitle(result) \notin st.seen_titles
    THEN [seen_ids |-> st.seen_ids \cup {DedupId(result)},
          seen_titles |-> st.seen_titles \cup {NormalizedTitle(result)},
          unique_results |-> Append(st.unique_results, result)]
    ELSE st

DedupStart == [seen_ids |-> {}, seen_titles |-> {}, unique_results |-> <<>>]

RECURSIVE DedupLoop(_, _, _)
DedupLoop(st, rs, i) ==
    IF i > Len(rs) THEN st ELSE DedupLoop(DedupBody(st, rs[i]), rs, i + 1)

\* remove_duplicates(results)
remove_duplicates(rs) == DedupLoop(DedupStart, rs, 1).unique_results

(***************************************************************************)
(* The lists remove_duplicates is run on: up to MaxResults offers of a     *)
(* catalogue whose identifiers come from product_id, from id, from link or *)
(* from nothing, and whose titles differ in case and whitespace only       *)
(***************************************************************************)
MaxResults == 3

DedupKeys ==
    { <<(<<"A">>), (<<>>), (<<>>)>>,          \* product_id A
      <<(<<"B">>), (<<"A">>), (<<"L">>)>>,    \* product_id B hides id A
      <<(<<>>), (<<"A">>), (<<"L">>)>>,       \* id A
      <<(<<>>), (<<>>), (<<"L">>)>>,          \* link L
      <<(<<>>), (<<>>), (<<>>)>> }            \* no identifier at all

DedupTitles ==
    { <<"i", "P", "a", "d">>,
      <<" ", "I", "P", "A", "D", "\t">>,
      <<"i", "P", "a", "d", " ", "\t", "M", "i", "n", "i">> }

DedupCatalogue ==
    { Offer(k[1], k[2], k[3], t, NoPrice, <<>>, Absent, Absent, FALSE) :
        k \in DedupKeys, t \in DedupTitles }

InitDedup ==
    /\ results \in UNION {[1..n -> DedupCatalogue] : n \in 0..MaxResults}
    /\ d_idx = 1
    /\ seen_ids = {}
    /\ seen_titles = {}
    /\ unique_results = <<>>
    /\ QueryIdle /\ FilterIdle /\ PipelineIdle /\ LinkIdle /\ SessionIdle /\ SortIdle

\* one iteration of "for result in results"
DedupStep ==
    /\ d_idx >= 1
    /\ d_idx <= Len(results)
    /\ LET st == DedupBody([seen_ids |-> seen_ids, seen_titles |-> seen_titles,
                            unique_results |-> unique_results], results[d_idx])
       IN /\ seen_ids' = st.seen_ids
          /\ seen_titles' = st.seen_titles
          /\ unique_results' = st.unique_results
    /\ d_idx' = d_idx + 1
    /\ UNCHANGED <<results, notDedup>>

NextDedup == DedupStep

SpecDedup == InitDedup /\ [][NextDedup]_vars

DedupDone == d_idx > Len(results)

(***************************************************************************)
(* C1: the output of remove_duplicates holds no two offers with the same   *)
(* non-empty identifier (product_id, else id, else link) and no two offers *)
(* with the same normalized title.                                         *)
(***************************************************************************)
C1_NoSharedKey ==
    \A i, j \in 1..Len(unique_results) :
        i < j =>
            /\ ~(DedupId(unique_results[i]) # <<>>
                 /\ DedupId(unique_results[i]) = DedupId(unique_results[j]))
            /\ NormalizedTitle(unique_results[i]) # NormalizedTitle(unique_results[j])

\* the loop has finished on three offers: the second repeats the identifier of the
\* first through the id fallback, the third repeats its title up to case and
\* whitespace, and only the first was kept
C1_Witness ==
    /\ DedupDone
    /\ Len(results) = 3
    /\ unique_results = <<results[1]>>
    /\ results[1].product_id # <<>> /\ results[2].product_id = <<>>
    /\ DedupId(results[1]) = DedupId(results[2])
    /\ NormalizedTitle(results[1]) # NormalizedTitle(results[2])
    /\ DedupId(results[1]) # DedupId(results[3])
    /\ results[1].title # results[3].title
    /\ NormalizedTitle(results[1]) = NormalizedTitle(results[3])

(***************************************************************************)
(* C2: an offer is kept exactly when neither its identifier nor its        *)
(* normalized title belongs to an offer kept before it; kept offers are    *)
(* appended in input order, so the output is a subsequence of the input    *)
(* and the first occurrence wins; of a list of two offers with one product *)
(* id and different titles only the first is kept.                         *)
(***************************************************************************)
C2_KeepRule ==
    d_idx' = d_idx + 1 =>
        LET r == results[d_idx]
            fresh == \A k \in 1..Len(unique_results) :
                         /\ DedupId(unique_results[k]) # DedupId(r)
                         /\ NormalizedTitle(unique_results[k]) # NormalizedTitle(r)
        IN unique_results' = IF fresh THEN Append(unique_results, r) ELSE unique_results

C2_SameIdExample ==
    (/\ DedupDone
     /\ Len(results) = 2
     /\ results[1].product_id # <<>>
     /\ results[1].product_id = results[2].product_id
     /\ NormalizedTitle(results[1]) # NormalizedTitle(results[2]))
        => unique_results = <<results[1]>>

C2_FirstOccurrenceWins == [][C2_KeepRule]_vars /\ []C2_SameIdExample

\* two offers with one product id and different titles have been processed and
\* the second was dropped
C2_Witness ==
    /\ DedupDone
    /\ Len(results) = 2
    /\ results[1].product_id # <<>>
    /\ results[1].product_id = results[2].product_id
    /\ NormalizedTitle(results[1]) # NormalizedTitle(results[2])
    /\ Len(unique_results) = 1

(***************************************************************************)
(* float(): the price strings of the model hold digits, a sign, a decimal  *)
(* point with at most two decimals, "inf", "nan" and surrounding           *)
(* whitespace. A float is [kind, val]: kind "num" with val in cents,       *)
(* "inf", "-inf", "nan", or "err" where float() raises ValueError.         *)
(***************************************************************************)
Digits == <<"0", "1", "2", "3", "4", "5", "6", "7", "8", "9">>
DigitVal(c) == (CHOOSE i \in 1..10 : Digits[i] = c) - 1

FloatErr == [kind |-> "err", val |-> 0]
FloatInf == [kind |-> "inf", val |-> 0]
FloatNegInf == [kind |-> "-inf", val |-> 0]
FloatNaN == [kind |-> "nan", val |-> 0]
FloatNum(cents) == [kind |-> "num", val |-> cents]

IsDigits(s) == \A i \in 1..Len(s) : s[i] \in DigitChars

RECURSIVE DecimalValue(_)
DecimalValue(s) ==
    IF s = <<>> THEN 0 ELSE 10 * DecimalValue(SubSeq(s, 1, Len(s) - 1)) + DigitVal(s[Len(s)])

\* the cents of the digits after the decimal point
CentsOf(frac) ==
    IF Len(frac) = 0 THEN 0
    ELSE IF Len(frac) = 1 THEN 10 * DigitVal(frac[1])
    ELSE 10 * DigitVal(frac[1]) + DigitVal(frac[2])

\* an unsigned literal: digits, digits.digits, digits. or .digits
UnsignedFloat(s) ==
    IF Lower(s) \in {<<"i", "n", "f">>, <<"i", "n", "f", "i", "n", "i", "t", "y">>} THEN FloatInf
    ELSE IF Lower(s) = <<"n", "a", "n">> THEN FloatNaN
    ELSE IF \E i \in 1..Len(s) : s[i] = "."
         THEN LET d == CHOOSE i \in 1..Len(s) : s[i] = "."
                  whole == SubSeq(s, 1, d - 1)
                  frac == SubSeq(s, d + 1, Len(s))
              IN IF IsDigits(whole) /\ IsDigits(frac) /\ Len(whole) + Len(frac) > 0
                 THEN FloatNum(100 * DecimalValue(whole) + CentsOf(frac))
                 ELSE FloatErr
         ELSE IF s # <<>> /\ IsDigits(s) THEN FloatNum(100 * DecimalValue(s)) ELSE FloatErr

Negate(f) ==
    IF f.kind = "num" THEN FloatNum(0 - f.val)
    ELSE IF f.kind = "inf" THEN FloatNegInf
    ELSE f

\* float(s)
ParseFloat(s) ==
    LET t == Strip(s)
    IN IF t # <<>> /\ t[1] = "-" THEN Negate(UnsignedFloat(Tail(t)))
       ELSE IF t # <<>> /\ t[1] = "+" THEN UnsignedFloat(Tail(t))
       ELSE UnsignedFloat(t)

\* f <= n, f >= n and f < g on floats (every comparison with nan is false)
FloatLe(f, cents) ==
    \/ f.kind = "-inf"
    \/ f.kind = "num" /\ f.val <= cents

FloatGe(f, cents) ==
    \/ f.kind = "inf"
    \/ f.kind = "num" /\ f.val >= cents

\* price_str.replace("$", "").replace(",", "")
StripCurrency(s) == RemoveChar(RemoveChar(s, "$"), ",")

(***************************************************************************)
(* Filter Chain (shopping.py, should_include_product and its predicates)   *)
(***************************************************************************)
accessory_keywords ==
    << <<"c", "a", "s", "e">>, <<"c", "o", "v", "e", "r">>, <<"s", "k", "i", "n">>, <<"s", "c", "r", "e", "e", "n", " ", "p", "r", "o", "t", "e", "c", "t", "o", "r">>, <<"c", "h", "a", "r", "g", "e", "r">>, <<"c", "a", "b", "l", "e">>,
       <<"a", "d", "a", "p", "t", "e", "r">>, <<"s", "t", "a", "n", "d">>, <<"m", "o", "u", "n", "t">>, <<"s", "l", "e", "e", "v", "e">>, <<"b", "a", "g">>, <<"k", "e", "y", "b", "o", "a", "r", "d">>, <<"m", "o", "u", "s", "e">>,
       <<"d", "o", "c", "k">>, <<"h", "u", "b">>, <<"s", "t", "i", "c", "k", "e", "r">>, <<"d", "e", "c", "a", "l">>, <<"f", "i", "l", "m">>, <<"g", "u", "a", "r", "d">>, <<"p", "r", "o", "t", "e", "c", "t", "o", "r">>,
       <<"h", "o", "l", "d", "e", "r">>, <<"g", "r", "i", "p">>, <<"c", "l", "e", "a", "n", "i", "n", "g">>, <<"c", "l", "o", "t", "h">>, <<"k", "i", "t">>, <<"t", "o", "o", "l">>, <<"r", "e", "p", "a", "i", "r">>,
       <<"r", "e", "p", "l", "a", "c", "e", "m", "e", "n", "t", " ", "p", "a", "r", "t">> >>

\* title is the lowercased title
is_accessory_or_irrelevant(title, it) ==
    LET item_lower == Lower(it)
    IN \E k \in 1..Len(accessory_keywords) :
          /\ Contains(title, accessory_keywords[k])
          /\ ~Contains(item_lower, accessory_keywords[k])

used_keywords ==
    << <<"u", "s", "e", "d">>, <<"r", "e", "f", "u", "r", "b", "i", "s", "h", "e", "d">>, <<"r", "e", "n", "e", "w", "e", "d">>, <<"p", "r", "e", "-", "o", "w", "n", "e", "d">>, <<"o", "p", "e", "n", " ", "b", "o", "x">>, <<"g", "r", "a", "d", "e", " ", "b">>,
       <<"g", "r", "a", "d", "e", " ", "c">>, <<"s", "c", "r", "a", "t", "c", "h", "e", "d">> >>

is_used_or_refurbished(p, title) ==
    \/ p.second_hand_condition
    \/ \E k \in 1..Len(used_keywords) : Contains(title, used_keywords[k])

\* constants.SITE_DOMAINS: the domain aliases of each retailer, keyed by the
\* lowercased preference
SITE_DOMAINS ==
    [k \in {<<"w", "a", "l", "m", "a", "r", "t">>, <<"a", "m", "a", "z", "o", "n">>, <<"t", "a", "r", "g", "e", "t">>, <<"b", "e", "s", "t", " ", "b", "u", "y">>} |->
        IF k = <<"w", "a", "l", "m", "a", "r", "t">> THEN {<<"w", "a", "l", "m", "a", "r", "t", ".", "c", "o", "m">>}
        ELSE IF k = <<"a", "m", "a", "z", "o", "n">> THEN {<<"a", "m", "a", "z", "o", "n", ".", "c", "o", "m">>}
        ELSE IF k = <<"t", "a", "r", "g", "e", "t">> THEN {<<"t", "a", "r", "g", "e", "t", ".", "c", "o", "m">>}
        ELSE {<<"b", "e", "s", "t", "b", "u", "y", ".", "c", "o", "m">>}]

\* utils.get_site_domains: SITE_DOMAINS.get(site_preference.lower(), [])
get_site_domains(pref) ==
    IF Lower(pref) \in DOMAIN SITE_DOMAINS THEN SITE_DOMAINS[Lower(pref)] ELSE {}

\* urlparse: the characters a scheme may hold
SchemeChars == Range(UpperChars) \cup Range(LowerChars) \cup DigitChars \cup {"+", "-", "."}

IsSchemeChar(c) == c \in SchemeChars

\* urlparse: the url once "scheme:" is split off (when what precedes the first
\* colon is a scheme)
AfterScheme(url) ==
    IF \E i \in 1..Len(url) : url[i] = ":"
    THEN LET c == CHOOSE i \in 1..Len(url) :
                      url[i] = ":" /\ \A j \in 1..(i - 1) : url[j] # ":"
         IN IF c > 1 /\ \A j \in 1..(c - 1) : IsSchemeChar(url[j])
            THEN SubSeq(url, c + 1, Len(url))
            ELSE url
    ELSE url

\* urlparse(url).netloc: what follows "//" up to the first "/", "?" or "#"
Netloc(url) ==
    LET rest == AfterScheme(url)
    IN IF Len(rest) >= 2 /\ rest[1] = "/" /\ rest[2] = "/"
       THEN LET body == SubSeq(rest, 3, Len(rest))
                stops == {i \in 1..Len(body) : body[i] \in {"/", "?", "#"}}
                stop == IF stops = {} THEN Len(body) + 1
                        ELSE CHOOSE i \in stops : \A j \in stops : i <= j
            IN SubSeq(body, 1, stop - 1)
       ELSE <<>>

\* urlparse raises ValueError("Invalid IPv6 URL") on an unmatched bracket
UrlParseRaises(url) ==
    LET n == Netloc(url)
    IN ("[" \in Range(n)) # ("]" \in Range(n))

\* the link test run on the whole link instead of its parsed domain
LinkMatchesWholeLink(link, pref) ==
    /\ link # <<>>
    /\ \E d \in get_site_domains(pref) : Contains(Lower(link), d)

\* step 2 of is_from_correct_site: the domain of the link
LinkMatches(link, pref) ==
    /\ link # <<>>
    /\ ~UrlParseRaises(link)
    /\ \E d \in get_site_domains(pref) : Contains(Lower(Netloc(link)), d)

is_from_correct_site(p, pref) ==
    IF Lower(pref) = <<"a", "n", "y">> THEN TRUE
    ELSE IF Contains(RemoveChar(Lower(p.source), " "), RemoveChar(Lower(pref), " "))
         THEN TRUE
         ELSE LinkMatches(p.link, pref)

price_ranges ==
    << <<<<"m", "a", "c", "b", "o", "o", "k">>, 500, 5000>>, <<<<"i", "p", "h", "o", "n", "e">>, 200, 2000>>, <<<<"i", "p", "a", "d">>, 200, 2000>>,
       <<<<"l", "a", "p", "t", "o", "p">>, 300, 5000>>, <<<<"t", "v">>, 150, 5000>>, <<<<"t", "a", "b", "l", "e", "t">>, 100, 2000>> >>

\* price is a float in cents; the first category found in the item decides
is_price_reasonable(price, it) ==
    LET hits == {k \in 1..Len(price_ranges) : Contains(Lower(it), price_ranges[k][1])}
    IN IF hits # {}
       THEN LET k == CHOOSE h \in hits : \A g \in hits : h <= g
            IN FloatGe(price, 100 * price_ranges[k][2]) /\ FloatLe(price, 100 * price_ranges[k][3])
       ELSE FloatGe(price, 100) /\ FloatLe(price, 1000000)

\* re.findall(r'\b\w+\b', s) from offset i on: the maximal runs of word characters
RECURSIVE WordsFrom(_, _)
WordsFrom(s, i) ==
    IF i > Len(s) THEN {}
    ELSE IF ~IsWordChar(s[i]) THEN WordsFrom(s, i + 1)
    ELSE LET ends == {j \in i..Len(s) : \A k \in i..j : IsWordChar(s[k])}
             e == CHOOSE j \in ends : \A k \in ends : k <= j
         IN {SubSeq(s, i, e)} \cup WordsFrom(s, e + 1)

\* set(re.findall(r'\b\w+\b', s))
WordsOf(s) == WordsFrom(s, 1)

stop_words ==
    { <<"a">>, <<"a", "n">>, <<"t", "h", "e">>, <<"a", "n", "d">>, <<"f", "o", "r">>, <<"w", "i", "t", "h">>, <<"i", "n">>, <<"o", "n">>, <<"o", "f">>, <<"t", "o">>,
      <<"n", "e", "w">> }

is_semantically_relevant(title, it) ==
    LET core_item_words == WordsOf(Lower(it)) \ stop_words
    IN IF core_item_words = {} THEN TRUE
       ELSE core_item_words \cap WordsOf(Lower(title)) # {}

\* float(price_str.replace("$", "").replace(",", "")) of an offer whose price is a str
PriceOf(p) == ParseFloat(StripCurrency(p.price.text))

\* the predicates that follow the price parse; title is the lowercased title
PassesPredicates(p, title, it, pref) ==
    /\ is_semantically_relevant(title, it)
    /\ ~is_accessory_or_irrelevant(title, it)
    /\ ~is_used_or_refurbished(p, title)
    /\ is_from_correct_site(p, pref)
    /\ is_price_reasonable(PriceOf(p), it)

\* a filter chain without the accessory predicate
should_include_product_no_accessory(p, it, pref) ==
    /\ p.title # <<>>
    /\ p.price.kind = "str" /\ p.price.text # <<>>
    /\ PriceOf(p).kind # "err"
    /\ ~FloatLe(PriceOf(p), 0)
    /\ is_semantically_relevant(Lower(p.title), it)
    /\ ~is_used_or_refurbished(p, Lower(p.title))
    /\ is_from_correct_site(p, pref)
    /\ is_price_reasonable(PriceOf(p), it)

\* a price absent, empty or not a str (AttributeError) and a price float() rejects
\* (ValueError) all return False
should_include_product(p, it, pref) ==
    /\ p.title # <<>>
    /\ p.price.kind = "str" /\ p.price.text # <<>>
    /\ PriceOf(p).kind # "err"
    /\ ~FloatLe(PriceOf(p), 0)
    /\ PassesPredicates(p, Lower(p.title), it, pref)

RECURSIVE apply_comprehensive_filters(_, _, _)
apply_comprehensive_filters(rs, it, pref) ==
    IF rs = <<>> THEN <<>>
    ELSE (IF should_include_product(Head(rs), it, pref) THEN <<Head(rs)>> ELSE <<>>)
         \o apply_comprehensive_filters(Tail(rs), it, pref)

(***************************************************************************)
(* Queries the Query Builder is run on: up to MaxPieces pieces in a row    *)
(***************************************************************************)
MaxPieces == 3

QueryPieces ==
    { <<" ">>, <<"\t">>, <<" ", "\t", " ">>, <<"-">>, <<"x">>, <<"2">>,
      <<"m", "a", "c", "b", "o", "o", "k">>, <<"M", "A", "C", "B", "O", "O", "K">>,
      <<"p", "r", "o">>, <<"A", "i", "r">>,
      <<"I", "p", "h", "o", "n", "e">>, <<"i", "p", "a", "d">>, <<"I", "P", "A", "D">> }

RECURSIVE Concat(_)
Concat(ss) == IF ss = <<>> THEN <<>> ELSE Head(ss) \o Concat(Tail(ss))

PieceSeqs(n) == UNION {[1..k -> QueryPieces] : k \in 0..n}

Queries == {Concat(ps) : ps \in PieceSeqs(MaxPieces)}

InitQuery ==
    /\ query \in Queries
    /\ cleaned = <<>>
    /\ recleaned = <<>>
    /\ DedupIdle /\ FilterIdle /\ PipelineIdle /\ LinkIdle /\ SessionIdle /\ SortIdle

\* cleaned = clean_search_query(query)
CleanQuery ==
    /\ cleaned = <<>>
    /\ cleaned' = <<clean_search_query(query)>>
    /\ UNCHANGED <<query, recleaned, notQuery>>

\* the result is normalized a second time
CleanAgain ==
    /\ cleaned # <<>>
    /\ recleaned = <<>>
    /\ recleaned' = <<clean_search_query(cleaned[1])>>
    /\ UNCHANGED <<query, cleaned, notQuery>>

NextQuery == CleanQuery \/ CleanAgain

SpecQuery == InitQuery /\ [][NextQuery]_vars

(***************************************************************************)
(* C9: clean_search_query is idempotent: normalizing a normalized query    *)
(* changes nothing, whatever the letter case of the canonicalized terms.   *)
(***************************************************************************)
C9_Idempotent == recleaned # <<>> => recleaned[1] = cleaned[1]

\* a query holding a canonicalized term in another letter case and a whitespace
\* run has been normalized twice, and the first pass changed it
C9_Witness ==
    /\ recleaned # <<>>
    /\ cleaned[1] # query
    /\ Contains(query, <<"I", "P", "A", "D">>)
    /\ Contains(cleaned[1], <<"i", "P", "a", "d">>)
    /\ \E i \in 1..(Len(query) - 1) : IsSpace(query[i]) /\ IsSpace(query[i + 1])
(***************************************************************************)
(* Relevance Scorer (shopping.py, calculate_advanced_relevance_scores)     *)
(* A score is an integer count of twentieths of a point, so that           *)
(* rating * 20 (rating in tenths of a star) and reviews / 4 are exact.     *)
(***************************************************************************)
Min(a, b) == IF a <= b THEN a ELSE b

\* product.get('rating', 0) is an int or a float; product.get('reviews', 0) is an int
RatingIsNumber(p) == p.rating.kind \in {"absent", "num"}
ReviewsIsInt(p) == p.reviews.kind \in {"absent", "num"}

\* the score of one product for the item, in twentieths
RelevanceScore(p, it) ==
    LET title == Lower(p.title)
        item_lower == Lower(it)
        common_words == WordsOf(item_lower) \cap WordsOf(title)
    IN 2000 * Cardinality(common_words)
       + (IF Contains(title, item_lower) THEN 20000 ELSE 0)
       + (IF RatingIsNumber(p) /\ ReviewsIsInt(p)
          THEN 40 * p.rating.val + Min(5 * p.reviews.val, 3000)
          ELSE 0)
       - (IF Len(title) > 100 THEN 500 ELSE 0)

calculate_advanced_relevance_scores(rs, it) ==
    [i \in 1..Len(rs) |-> [rs[i] EXCEPT !.relevance_score = Num(RelevanceScore(rs[i], it))]]

(***************************************************************************)
(* sorted(): list.sort on fewer than 64 elements is one natural run        *)
(* followed by a binary insertion sort; every comparison is key < key.     *)
(* A key is a tuple of floats.                                             *)
(***************************************************************************)
FloatLt(f, g) ==
    \/ f.kind = "num" /\ g.kind = "num" /\ f.val < g.val
    \/ f.kind = "-inf" /\ g.kind \in {"num", "inf"}
    \/ f.kind = "num" /\ g.kind = "inf"

FloatEq(f, g) == f.kind # "nan" /\ f = g

\* tuple < tuple: the first position where the two differ decides
KeyLt(a, b) ==
    LET diff == {i \in 1..Len(a) : ~FloatEq(a[i], b[i])}
    IN /\ diff # {}
       /\ LET d == CHOOSE i \in diff : \A j \in diff : i <= j
          IN FloatLt(a[d], b[d])

Reverse(s) == [i \in 1..Len(s) |-> s[Len(s) + 1 - i]]

\* count_run: the length of the run that starts the list (ps holds <<key, element>>)
RECURSIVE RunLength(_, _, _)
RunLength(ps, n, descending) ==
    IF n >= Len(ps) THEN n
    ELSE IF KeyLt(ps[n + 1][1], ps[n][1]) = descending
         THEN RunLength(ps, n + 1, descending)
         ELSE n

\* binarysort: where the pivot goes among ps[l+1 .. r]
RECURSIVE InsertionPoint(_, _, _, _)
InsertionPoint(ps, pivot, l, r) ==
    IF l >= r THEN l
    ELSE LET p == l + ((r - l) \div 2)
         IN IF KeyLt(pivot[1], ps[p + 1][1])
            THEN InsertionPoint(ps, pivot, l, p)
            ELSE InsertionPoint(ps, pivot, p + 1, r)

RECURSIVE BinarySort(_, _)
BinarySort(ps, start) ==
    IF start > Len(ps) THEN ps
    ELSE LET pivot == ps[start]
             l == InsertionPoint(ps, pivot, 0, start - 1)
             moved == SubSeq(ps, 1, l) \o <<pivot>> \o SubSeq(ps, l + 1, start - 1)
                      \o SubSeq(ps, start + 1, Len(ps))
         IN BinarySort(moved, start + 1)

ListSort(ps) ==
    IF Len(ps) < 2 THEN ps
    ELSE LET descending == KeyLt(ps[2][1], ps[1][1])
             n == RunLength(ps, 2, descending)
             run == IF descending
                    THEN Reverse(SubSeq(ps, 1, n)) \o SubSeq(ps, n + 1, Len(ps))
                    ELSE ps
         IN BinarySort(run, n + 1)

\* sorted(xs, key=...) with the keys given beside the elements
SortedByKey(ps) == [i \in 1..Len(ps) |-> ListSort(ps)[i][2]]

\* sorted(xs, key=..., reverse=True): reversed before and after, which keeps ties
\* in their original order
SortedByKeyReversed(ps) == Reverse(SortedByKey(Reverse(ps)))

(***************************************************************************)
(* Sorter (shopping.py, sort_results)                                      *)
(***************************************************************************)
SortCheapest == <<"C", "h", "e", "a", "p", "e", "s", "t">>
SortHighestRated == <<"H", "i", "g", "h", "e", "s", "t", " ", "R", "a", "t", "e", "d">>
SortBalanced == <<"B", "a", "l", "a", "n", "c", "e", "d">>

\* float(product.get("price", "0").replace("$", "").replace(",", "")), or
\* float('inf') on ValueError and AttributeError
NumericPrice(p) ==
    IF p.price.kind = "absent" THEN FloatNum(0)
    ELSE IF p.price.kind = "other" THEN FloatInf
    ELSE IF PriceOf(p).kind = "err" THEN FloatInf
    ELSE PriceOf(p)

WithNumericPrice(rs) ==
    [i \in 1..Len(rs) |-> [rs[i] EXCEPT !.numeric_price = NumericPrice(rs[i])]]

\* x.get('rating', 0): the rating, 0 for an offer without one.  The ratings the
\* sorter is handed are numbers: sorted() has no order for anything else.
RatingKey(p) == IF p.rating.kind = "num" THEN FloatNum(p.rating.val) ELSE FloatNum(0)

\* (-x.get("relevance_score", 0), x.get("numeric_price", float('inf')))
BalancedKey(p) == <<FloatNum(0 - p.relevance_score.val), p.numeric_price>>

\* a Balanced ordering that forgets the price tie-break
SortBalancedNoTieBreak(rs, it) ==
    LET scored == calculate_advanced_relevance_scores(rs, it)
    IN SortedByKey([i \in 1..Len(scored) |->
                       <<(<<FloatNum(0 - scored[i].relevance_score.val)>>), scored[i]>>])

SortBalancedResults(rs, it) ==
    LET scored == calculate_advanced_relevance_scores(rs, it)
    IN SortedByKey([i \in 1..Len(scored) |-> <<BalancedKey(scored[i]), scored[i]>>])

\* a Cheapest ordering that sorts the price strings' first-seen order backwards
SortCheapestDescending(rs) ==
    SortedByKeyReversed([i \in 1..Len(rs) |-> <<(<<rs[i].numeric_price>>), rs[i]>>])

SortCheapestResults(rs) ==
    SortedByKey([i \in 1..Len(rs) |-> <<(<<rs[i].numeric_price>>), rs[i]>>])

SortHighestRatedResults(rs) ==
    SortedByKeyReversed([i \in 1..Len(rs) |-> <<(<<RatingKey(rs[i])>>), rs[i]>>])

\* a sorter that takes the Highest Rated branch without looking for a rating
sort_results_rating_unchecked(filtered_results, sort_pref, it) ==
    LET priced == WithNumericPrice(filtered_results)
    IN IF sort_pref = SortCheapest THEN SortCheapestResults(priced)
       ELSE IF sort_pref = SortHighestRated
            THEN SortHighestRatedResults(priced)
            ELSE SortBalancedResults(priced, it)

sort_results(filtered_results, sort_pref, it) ==
    LET priced == WithNumericPrice(filtered_results)
    IN IF sort_pref = SortCheapest THEN SortCheapestResults(priced)
       ELSE IF /\ sort_pref = SortHighestRated
               /\ \E i \in 1..Len(priced) : priced[i].rating.kind # "absent"
            THEN SortHighestRatedResults(priced)
            ELSE SortBalancedResults(priced, it)

(***************************************************************************)
(* Pipeline Orchestrator (shopping.py, get_shopping_results)               *)
(***************************************************************************)
TopN == 10

\* sorted_results[:10]
Truncate(rs) == SubSeq(rs, 1, Min(TopN, Len(rs)))

\* the offers get_shopping_results returns for what perform_search returned
ProcessResults(raw_results, it, pref, sort_pref) ==
    IF raw_results = <<>> THEN <<>>
    ELSE Truncate(sort_results(
             apply_comprehensive_filters(remove_duplicates(raw_results), it, pref),
             sort_pref, it))

(***************************************************************************)
(* The offers should_include_product is run on: a title of up to           *)
(* MaxTitleWords words, a price of every shape, with and without the       *)
(* used-condition marker, for each item and retailer setting               *)
(***************************************************************************)
MaxTitleWords == 2

TitleWords == { <<"i", "P", "a", "d">>, <<"M", "a", "c", "B", "o", "o", "k">>, <<"P", "r", "o">>, <<"C", "a", "s", "e">>, <<"s", "h", "o", "w", "c", "a", "s", "e">>, <<"U", "s", "e", "d">> }

RECURSIVE JoinWords(_)
JoinWords(ws) ==
    IF ws = <<>> THEN <<>>
    ELSE IF Len(ws) = 1 THEN ws[1]
    ELSE ws[1] \o <<" ">> \o JoinWords(Tail(ws))

Titles == {JoinWords(ws) : ws \in UNION {[1..n -> TitleWords] : n \in 0..MaxTitleWords}}

Prices ==
    { NoPrice, PriceOther, PriceStr(<<>>), PriceStr(<<"$", "1", ",", "2", "9", "9", ".", "0", "0">>), PriceStr(<<"$", "0", ".", "0", "0">>),
      PriceStr(<<"-", "5">>), PriceStr(<<"f", "r", "e", "e">>), PriceStr(<<"n", "a", "n">>), PriceStr(<<"i", "n", "f">>),
      PriceStr(<<" ", "$", "2", "5", "0", " ">>), PriceStr(<<"$", "2", "0", ",", "0", "0", "0">>), PriceStr(<<"$", "0", ".", "5", "0">>) }

Items == { <<"i", "p", "a", "d">>, <<"i", "P", "a", "d", " ", "C", "a", "s", "e">>, <<"m", "a", "c", "b", "o", "o", "k", " ", "p", "r", "o">>, <<"t", "h", "e", " ", "n", "e", "w">> }

\* <<site_pref, source, link>>
SiteSettings ==
    { <<<<"A", "n", "y">>, <<>>, <<>>>>,
      <<<<"A", "m", "a", "z", "o", "n">>, <<"a", "m", "a", "z", "o", "n", ".", "c", "o", "m">>, <<"h", "t", "t", "p", "s", ":", "/", "/", "w", "w", "w", ".", "a", "m", "a", "z", "o", "n", ".", "c", "o", "m", "/", "d", "p", "/", "x", "y", "z">>>>,
      <<<<"A", "m", "a", "z", "o", "n">>, <<"W", "a", "l", "m", "a", "r", "t">>, <<"h", "t", "t", "p", "s", ":", "/", "/", "w", "w", "w", ".", "w", "a", "l", "m", "a", "r", "t", ".", "c", "o", "m", "/", "i", "p", "/", "1">>>> }

InitFilter ==
    /\ \E t \in Titles, pr \in Prices, sh \in BOOLEAN, st \in SiteSettings :
          /\ product = Offer(<<>>, <<>>, st[3], t, pr, st[2], Absent, Absent, sh)
          /\ site_pref = st[1]
    /\ item \in Items
    /\ included = <<>>
    /\ correct_site = <<>>
    /\ QueryIdle /\ DedupIdle /\ PipelineIdle /\ LinkIdle /\ SessionIdle /\ SortIdle

\* included = should_include_product(product, item, site_pref)
ShouldInclude ==
    /\ product # <<>>
    /\ included = <<>>
    /\ included' = <<should_include_product(product, item, site_pref)>>
    /\ UNCHANGED <<product, item, site_pref, correct_site, notFilter>>

NextFilter == ShouldInclude

SpecFilter == InitFilter /\ [][NextFilter]_vars

(***************************************************************************)
(* C3: an offer should_include_product accepts has a price that parses to  *)
(* a number greater than 0, a non-empty title, and a title in which every  *)
(* accessory keyword that occurs also occurs in the item name.             *)
(***************************************************************************)
C3_FilterSound ==
    included = <<TRUE>> =>
        /\ product.price.kind = "str"
        /\ ParseFloat(StripCurrency(product.price.text)).kind = "num"
        /\ ParseFloat(StripCurrency(product.price.text)).val > 0
        /\ product.title # <<>>
        /\ \A k \in 1..Len(accessory_keywords) :
              Contains(Lower(product.title), accessory_keywords[k])
                  => Contains(Lower(item), accessory_keywords[k])

\* an offer whose title holds the keyword "case" was accepted for the item
\* "iPad Case", at a price written with a currency sign
C3_Witness ==
    /\ included = <<TRUE>>
    /\ item = <<"i", "P", "a", "d", " ", "C", "a", "s", "e">>
    /\ Contains(Lower(product.title), <<"c", "a", "s", "e">>)
    /\ product.price.text = <<" ", "$", "2", "5", "0", " ">>

(***************************************************************************)
(* The offers is_from_correct_site is run on: every source and link of the *)
(* lists below, for every retailer preference of the selector in either    *)
(* letter case                                                             *)
(***************************************************************************)
SitePrefs ==
    { <<"A", "n", "y">>, <<"a", "n", "y">>, <<"W", "a", "l", "m", "a", "r", "t">>, <<"A", "m", "a", "z", "o", "n">>, <<"T", "a", "r", "g", "e", "t">>, <<"B", "e", "s", "t", " ", "B", "u", "y">>, <<"b", "e", "s", "t", " ", "b", "u", "y">> }

Sources ==
    { <<>>, <<"a", "m", "a", "z", "o", "n", ".", "c", "o", "m">>, <<"A", "m", "a", "z", "o", "n">>, <<"B", "e", "s", "t", " ", "B", "u", "y">>, <<"B", "e", "s", "t", "B", "u", "y", ".", "c", "o", "m">>, <<"W", "a", "l", "m", "a", "r", "t", " ", "-", " ", "S", "e", "l", "l", "e", "r">>,
      <<"e", "B", "a", "y">> }

Links ==
    { <<>>,
      <<"h", "t", "t", "p", "s", ":", "/", "/", "w", "w", "w", ".", "a", "m", "a", "z", "o", "n", ".", "c", "o", "m", "/", "d", "p", "/", "x", "y", "z">>,
      <<"a", "m", "a", "z", "o", "n", ".", "c", "o", "m", "/", "d", "p", "/", "x", "y", "z">>,
      <<"h", "t", "t", "p", "s", ":", "/", "/", "s", "h", "o", "p", ".", "e", "x", "a", "m", "p", "l", "e", ".", "c", "o", "m", "/", "a", "m", "a", "z", "o", "n", ".", "c", "o", "m">>,
      <<"h", "t", "t", "p", "s", ":", "/", "/", "w", "w", "w", ".", "e", "b", "a", "y", ".", "c", "o", "m", "/", "i", "t", "m", "?", "u", "=", "w", "a", "l", "m", "a", "r", "t", ".", "c", "o", "m">>,
      <<"h", "t", "t", "p", "s", ":", "/", "/", "[", "b", "e", "s", "t", "b", "u", "y", ".", "c", "o", "m", "/", "p">>,
      <<"H", "T", "T", "P", "S", ":", "/", "/", "W", "W", "W", ".", "B", "E", "S", "T", "B", "U", "Y", ".", "C", "O", "M", "/", "s", "i", "t", "e">>,
      <<"/", "/", "w", "a", "l", "m", "a", "r", "t", ".", "c", "o", "m", "/", "i", "p", "/", "1">>,
      <<"h", "t", "t", "p", "s", ":", "/", "/", "w", "w", "w", ".", "t", "a", "r", "g", "e", "t", ".", "c", "o", "m", "/", "p", "#", "x">> }

InitSite ==
    /\ \E so \in Sources, l \in Links :
          product = Offer(<<>>, <<>>, l, <<"i", "P", "a", "d">>, PriceStr(<<"$", "2", "5", "0">>), so, Absent, Absent, FALSE)
    /\ site_pref \in SitePrefs
    /\ item = <<"i", "p", "a", "d">>
    /\ included = <<>>
    /\ correct_site = <<>>
    /\ QueryIdle /\ DedupIdle /\ PipelineIdle /\ LinkIdle /\ SessionIdle /\ SortIdle

\* correct_site = is_from_correct_site(product, site_pref)
CheckSite ==
    /\ product # <<>>
    /\ correct_site = <<>>
    /\ correct_site' = <<is_from_correct_site(product, site_pref)>>
    /\ UNCHANGED <<product, item, site_pref, included, notFilter>>

NextSite == CheckSite

SpecSite == InitSite /\ [][NextSite]_vars

(***************************************************************************)
(* C10: is_from_correct_site passes every offer when the preference is Any *)
(* in any letter case; for a retailer it passes exactly when the source,   *)
(* lowercased and without spaces, contains the preference name lowercased  *)
(* and without spaces, or the link parses and the domain of the link       *)
(* contains a domain alias of the preference. An absent link, a link       *)
(* without a domain and a link urlparse rejects never make it pass.        *)
(***************************************************************************)
SourceNamesRetailer ==
    Contains(RemoveChar(Lower(product.source), " "), RemoveChar(Lower(site_pref), " "))

LinkHostNamesRetailer ==
    /\ product.link # <<>>
    /\ ~UrlParseRaises(product.link)
    /\ \E d \in get_site_domains(site_pref) : Contains(Lower(Netloc(product.link)), d)

C10_CorrectSite ==
    correct_site # <<>> =>
        /\ Lower(site_pref) = <<"a", "n", "y">> => correct_site[1]
        /\ Lower(site_pref) # <<"a", "n", "y">> =>
              (correct_site[1] <=> (SourceNamesRetailer \/ LinkHostNamesRetailer))
        /\ (/\ Lower(site_pref) # <<"a", "n", "y">>
            /\ ~SourceNamesRetailer
            /\ (product.link = <<>> \/ Netloc(product.link) = <<>>
                \/ UrlParseRaises(product.link)))
              => ~correct_site[1]

\* the example of the spec: retailer Amazon, source "amazon.com", passed
C10_Witness ==
    /\ correct_site = <<TRUE>>
    /\ site_pref = <<"A", "m", "a", "z", "o", "n">>
    /\ product.source = <<"a", "m", "a", "z", "o", "n", ".", "c", "o", "m">>
    /\ product.link = <<"h", "t", "t", "p", "s", ":", "/", "/", "w", "w", "w", ".", "a", "m", "a", "z", "o", "n", ".", "c", "o", "m", "/", "d", "p", "/", "x", "y", "z">>

(***************************************************************************)
(* The multi-item search (ShopAI.py, section 7): one get_shopping_results  *)
(* call per item of final_items is submitted to a ThreadPoolExecutor; the  *)
(* calls interleave at every step below; the results are collected into a  *)
(* dict keyed by item once every future is done.                           *)
(*                                                                         *)
(* A call is [item, pc, raw_results, unique_results, filtered_results,     *)
(* sorted_results, ret]; a local is <<>> until assigned and <<value>> from  *)
(* then on.                                                                *)
(***************************************************************************)
NewCall(it) ==
    [item |-> it, pc |-> "fetch", raw_results |-> <<>>, unique_results |-> <<>>,
     filtered_results |-> <<>>, sorted_results |-> <<>>, ret |-> <<>>]

Submitted(items) == [w \in 1..Len(items) |-> NewCall(items[w])]

\* perform_search, the try block: the request succeeds and the provider's
\* shopping_results are read
FetchOk(w) ==
    /\ workers[w].pc = "fetch"
    /\ workers' = [workers EXCEPT ![w].raw_results = <<provider[workers[w].item]>>,
                                  ![w].pc = "count_check"]
    /\ UNCHANGED <<final_items, sess_site_pref, sess_sort_pref, provider,
                   show_initial_count, info_shown, errors_shown, all_results, notPipeline>>

\* perform_search, the except block: a RequestException is reported with st.error
\* and [] is returned
FetchFail(w) ==
    /\ workers[w].pc = "fetch"
    /\ errors_shown' = errors_shown \cup {w}
    /\ workers' = [workers EXCEPT ![w].raw_results = <<(<<>>)>>, ![w].pc = "dedup"]
    /\ UNCHANGED <<final_items, sess_site_pref, sess_sort_pref, provider,
                   show_initial_count, info_shown, all_results, notPipeline>>

\* perform_search: "if st.session_state.get("show_initial_count", True)" and the
\* st.info that follows it
CountCheck(w) ==
    /\ workers[w].pc = "count_check"
    /\ IF show_initial_count
       THEN /\ info_shown' = info_shown \cup {w}
            /\ workers' = [workers EXCEPT ![w].pc = "count_write"]
       ELSE /\ info_shown' = info_shown
            /\ workers' = [workers EXCEPT ![w].pc = "dedup"]
    /\ UNCHANGED <<final_items, sess_site_pref, sess_sort_pref, provider,
                   show_initial_count, errors_shown, all_results, notPipeline>>

\* perform_search: st.session_state.show_initial_count = False
CountWrite(w) ==
    /\ workers[w].pc = "count_write"
    /\ show_initial_count' = FALSE
    /\ workers' = [workers EXCEPT ![w].pc = "dedup"]
    /\ UNCHANGED <<final_items, sess_site_pref, sess_sort_pref, provider,
                   info_shown, errors_shown, all_results, notPipeline>>

\* a get_shopping_results that runs the stages on an empty fetch too
DedupStageAlways(c) ==
    [c EXCEPT !.unique_results = <<remove_duplicates(c.raw_results[1])>>, !.pc = "filter"]

\* get_shopping_results: "if not raw_results: return item, []", else
\* unique_results = remove_duplicates(raw_results)
DedupStage(c) ==
    IF c.raw_results[1] = <<>>
    THEN [c EXCEPT !.ret = <<(<<>>)>>, !.pc = "done"]
    ELSE [c EXCEPT !.unique_results = <<remove_duplicates(c.raw_results[1])>>,
                   !.pc = "filter"]

RunDedup(w) ==
    /\ workers[w].pc = "dedup"
    /\ workers' = [workers EXCEPT ![w] = DedupStage(workers[w])]
    /\ UNCHANGED <<final_items, sess_site_pref, sess_sort_pref, provider,
                   show_initial_count, info_shown, errors_shown, all_results, notPipeline>>

\* filtered_results = apply_comprehensive_filters(unique_results, item, site_pref)
FilterStage(c, pref) ==
    [c EXCEPT !.filtered_results =
                  <<apply_comprehensive_filters(c.unique_results[1], c.item, pref)>>,
              !.pc = "sort"]

RunFilter(w) ==
    /\ workers[w].pc = "filter"
    /\ workers' = [workers EXCEPT ![w] = FilterStage(workers[w], sess_site_pref)]
    /\ UNCHANGED <<final_items, sess_site_pref, sess_sort_pref, provider,
                   show_initial_count, info_shown, errors_shown, all_results, notPipeline>>

\* a final stage that returns everything it sorted
SortStageNoTruncate(c, sort_pref) ==
    LET sorted == sort_results(c.filtered_results[1], sort_pref, c.item)
    IN [c EXCEPT !.sorted_results = <<sorted>>, !.ret = <<sorted>>, !.pc = "done"]

\* sorted_results = sort_results(filtered_results, sort_pref, item);
\* return item, sorted_results[:10]
SortStage(c, sort_pref) ==
    LET sorted == sort_results(c.filtered_results[1], sort_pref, c.item)
    IN [c EXCEPT !.sorted_results = <<sorted>>, !.ret = <<Truncate(sorted)>>, !.pc = "done"]

RunSort(w) ==
    /\ workers[w].pc = "sort"
    /\ workers' = [workers EXCEPT ![w] = SortStage(workers[w], sess_sort_pref)]
    /\ UNCHANGED <<final_items, sess_site_pref, sess_sort_pref, provider,
                   show_initial_count, info_shown, errors_shown, all_results, notPipeline>>

\* the last call submitted for an item
LastCallFor(cs, it) ==
    CHOOSE w \in 1..Len(cs) : cs[w].item = it /\ \A v \in 1..Len(cs) : cs[v].item = it => v <= w

\* a collection that leaves out the items without offers
CollectNonEmpty(cs) ==
    [it \in {cs[w].item : w \in {v \in 1..Len(cs) : cs[v].ret[1] # <<>>}} |->
        cs[LastCallFor(cs, it)].ret[1]]

\* {f.result()[0]: f.result()[1] for f in futures}: a later future of the same
\* item replaces an earlier one
CollectResults(cs) ==
    [it \in {cs[w].item : w \in 1..Len(cs)} |-> cs[LastCallFor(cs, it)].ret[1]]

Collect ==
    /\ workers # <<>>
    /\ all_results = <<>>
    /\ \A w \in 1..Len(workers) : workers[w].pc = "done"
    /\ all_results' = <<CollectResults(workers)>>
    /\ UNCHANGED <<final_items, sess_site_pref, sess_sort_pref, provider, workers,
                   show_initial_count, info_shown, errors_shown, notPipeline>>

NextSearch ==
    \/ \E w \in 1..Len(workers) : FetchOk(w)
    \/ \E w \in 1..Len(workers) : FetchFail(w)
    \/ \E w \in 1..Len(workers) : CountCheck(w)
    \/ \E w \in 1..Len(workers) : CountWrite(w)
    \/ \E w \in 1..Len(workers) : RunDedup(w)
    \/ \E w \in 1..Len(workers) : RunFilter(w)
    \/ \E w \in 1..Len(workers) : RunSort(w)
    \/ Collect

(***************************************************************************)
(* The provider's answers of the model                                     *)
(***************************************************************************)
\* six offers: two that tie on relevance for "ipad" at different prices, one with
\* capped reviews, one that repeats a product id, an accessory, and a MacBook
ShopCatalogue ==
    << Offer(<<"a">>, <<>>, <<"h", "t", "t", "p", "s", ":", "/", "/", "w", "w", "w", ".", "a", "m", "a", "z", "o", "n", ".", "c", "o", "m", "/", "d", "p", "/", "a">>, <<"A", "p", "p", "l", "e", " ", "i", "P", "a", "d">>,
             PriceStr(<<"$", "3", "2", "9", ".", "0", "0">>), <<"A", "m", "a", "z", "o", "n", ".", "c", "o", "m">>, Num(45), Num(100), FALSE),
       Offer(<<"b">>, <<>>, <<"h", "t", "t", "p", "s", ":", "/", "/", "w", "w", "w", ".", "w", "a", "l", "m", "a", "r", "t", ".", "c", "o", "m", "/", "i", "p", "/", "b">>, <<"i", "P", "a", "d", " ", "A", "p", "p", "l", "e">>,
             PriceStr(<<"$", "2", "9", "9", ".", "0", "0">>), <<"W", "a", "l", "m", "a", "r", "t">>, Num(45), Num(100), FALSE),
       Offer(<<"c">>, <<>>, <<"h", "t", "t", "p", "s", ":", "/", "/", "w", "w", "w", ".", "a", "m", "a", "z", "o", "n", ".", "c", "o", "m", "/", "d", "p", "/", "c">>, <<"i", "P", "a", "d", " ", "P", "r", "o">>,
             PriceStr(<<"$", "1", ",", "0", "9", "9", ".", "0", "0">>), <<"B", "e", "s", "t", " ", "B", "u", "y">>, Num(48), Num(2000), FALSE),
       Offer(<<"a">>, <<>>, <<"h", "t", "t", "p", "s", ":", "/", "/", "w", "w", "w", ".", "t", "a", "r", "g", "e", "t", ".", "c", "o", "m", "/", "p", "/", "a">>, <<"i", "P", "a", "d", " ", "M", "i", "n", "i">>,
             PriceStr(<<"$", "2", "4", "9", ".", "5", "0">>), <<"T", "a", "r", "g", "e", "t">>, Absent, Absent, FALSE),
       Offer(<<"d">>, <<>>, <<"h", "t", "t", "p", "s", ":", "/", "/", "w", "w", "w", ".", "a", "m", "a", "z", "o", "n", ".", "c", "o", "m", "/", "d", "p", "/", "d">>, <<"i", "P", "a", "d", " ", "C", "a", "s", "e">>,
             PriceStr(<<"$", "2", "1", "9", ".", "9", "9">>), <<"A", "m", "a", "z", "o", "n", ".", "c", "o", "m">>, Num(50), Num(9), FALSE),
       Offer(<<"e">>, <<>>, <<"h", "t", "t", "p", "s", ":", "/", "/", "w", "w", "w", ".", "a", "m", "a", "z", "o", "n", ".", "c", "o", "m", "/", "d", "p", "/", "e">>, <<"M", "a", "c", "B", "o", "o", "k", " ", "P", "r", "o", " ", "1", "4">>,
             PriceStr(<<"$", "1", ",", "9", "9", "9", ".", "0", "0">>), <<"A", "m", "a", "z", "o", "n", ".", "c", "o", "m">>, Num(47), Num(50), FALSE) >>

\* the answers of up to MaxFetch offers of the catalogue, in every order
MaxFetch == 3

ShortAnswers ==
    { [i \in DOMAIN ix |-> ShopCatalogue[ix[i]]] :
        ix \in { f \in UNION {[1..n -> 1..Len(ShopCatalogue)] : n \in 0..MaxFetch} :
                    \A i, j \in DOMAIN f : i # j => f[i] # f[j] } }

\* the k-th of a run of distinct iPads, all of which pass the filters for "ipad"
LongOffer(k) ==
    Offer(<<"p", LowerChars[k]>>, <<>>, <<>>, <<"i", "P", "a", "d", " ">> \o <<LowerChars[k]>>,
          PriceStr(<<"$", Digits[3 + ((3 * k) % 7)], "9", Digits[1 + (k % 10)]>>),
          <<"A", "m", "a", "z", "o", "n", ".", "c", "o", "m">>, Num(30 + ((7 * k) % 20)), Num((100 * k) % 700), FALSE)

\* the answers with more offers than the orchestrator returns: MaxLong at most
MaxLong == 12

LongAnswers ==
    { [i \in 1..n |-> LongOffer(start + i)] : start \in 0..2, n \in (TopN - 1)..MaxLong }

PipelineItems == { <<"i", "p", "a", "d">>, <<"m", "a", "c", "b", "o", "o", "k", " ", "p", "r", "o">> }

InitPipeline ==
    /\ \E it \in PipelineItems :
          /\ final_items = <<it>>
          /\ provider \in [{it} -> ShortAnswers \cup LongAnswers]
    /\ sess_site_pref \in { <<"A", "n", "y">>, <<"A", "m", "a", "z", "o", "n">> }
    /\ sess_sort_pref \in { SortBalanced, SortCheapest, SortHighestRated }
    /\ workers = Submitted(final_items)
    /\ show_initial_count = TRUE
    /\ info_shown = {}
    /\ errors_shown = {}
    /\ all_results = <<>>
    /\ QueryIdle /\ DedupIdle /\ FilterIdle /\ LinkIdle /\ SessionSearching /\ SortIdle

\* one item searched: the stages of get_shopping_results on every answer
SpecPipeline == InitPipeline /\ [][NextSearch]_vars

\* the items of a multi-item search: up to MaxItems, with repeats
MaxItems == 2

FanOutAnswers ==
    [it \in PipelineItems |->
        IF it = <<"i", "p", "a", "d">>
        THEN <<ShopCatalogue[1], ShopCatalogue[2], ShopCatalogue[5], ShopCatalogue[4]>>
        ELSE <<ShopCatalogue[6], ShopCatalogue[3]>>]

InitFanOut ==
    /\ final_items \in UNION {[1..n -> PipelineItems] : n \in 1..MaxItems}
    /\ provider = FanOutAnswers
    /\ sess_site_pref = <<"A", "n", "y">>
    /\ sess_sort_pref \in { SortBalanced, SortCheapest }
    /\ workers = Submitted(final_items)
    /\ show_initial_count = TRUE
    /\ info_shown = {}
    /\ errors_shown = {}
    /\ all_results = <<>>
    /\ QueryIdle /\ DedupIdle /\ FilterIdle /\ LinkIdle /\ SessionSearching /\ SortIdle

\* several items searched in parallel
SpecFanOut == InitFanOut /\ [][NextSearch]_vars

(***************************************************************************)
(* C4: get_shopping_results returns the empty list when the fetch returned *)
(* nothing, and otherwise exactly the first min(10, n) offers of           *)
(* sort(filter(deduplicate(fetched))); it never returns more than 10       *)
(* offers and every offer it returns passes the filter chain.              *)
(***************************************************************************)
StagesInOrder(raw, it, pref, sort_pref) ==
    LET staged == sort_results(
                      apply_comprehensive_filters(remove_duplicates(raw), it, pref),
                      sort_pref, it)
    IN SubSeq(staged, 1, IF Len(staged) < 10 THEN Len(staged) ELSE 10)

C4_Orchestrator ==
    \A w \in 1..Len(workers) :
        workers[w].pc = "done" =>
            LET c == workers[w]
                R == c.ret[1]
            IN /\ c.raw_results[1] = <<>> => R = <<>>
               /\ c.raw_results[1] # <<>> =>
                     R = StagesInOrder(c.raw_results[1], c.item, sess_site_pref, sess_sort_pref)
               /\ Len(R) <= 10
               /\ \A i \in 1..Len(R) : should_include_product(R[i], c.item, sess_site_pref)

\* a call whose sorted list held more than ten offers has returned ten of them
C4_Witness ==
    /\ workers # <<>>
    /\ workers[1].pc = "done"
    /\ workers[1].sorted_results # <<>>
    /\ Len(workers[1].sorted_results[1]) > 10
    /\ Len(workers[1].ret[1]) = 10

(***************************************************************************)
(* C5: under the Cheapest policy the list sort_results returns is in       *)
(* non-decreasing order of numeric price: price[i] <= price[j] for i < j.  *)
(***************************************************************************)
FloatLeq(f, g) == FloatLt(f, g) \/ FloatEq(f, g)

C5_CheapestSorted ==
    sess_sort_pref = SortCheapest =>
        \A w \in 1..Len(workers) :
            workers[w].sorted_results # <<>> =>
                LET out == workers[w].sorted_results[1]
                IN \A i, j \in 1..Len(out) :
                      i < j =>
                          /\ out[i].numeric_price = PriceOf(out[i])
                          /\ FloatLeq(PriceOf(out[i]), PriceOf(out[j]))

\* three offers fetched dearest first have been sorted under Cheapest
C5_Witness ==
    /\ sess_sort_pref = SortCheapest
    /\ workers # <<>>
    /\ workers[1].sorted_results # <<>>
    /\ Len(workers[1].sorted_results[1]) = 3
    /\ LET f == workers[1].filtered_results[1]
       IN /\ FloatLt(PriceOf(f[3]), PriceOf(f[2]))
          /\ FloatLt(PriceOf(f[2]), PriceOf(f[1]))

(***************************************************************************)
(* C6: under the Balanced policy the list sort_results returns satisfies,  *)
(* for i < j, score[i] > score[j], or score[i] = score[j] and              *)
(* price[i] <= price[j], the score being the scorer's for the item.        *)
(***************************************************************************)
C6_BalancedSorted ==
    sess_sort_pref = SortBalanced =>
        \A w \in 1..Len(workers) :
            workers[w].sorted_results # <<>> =>
                LET out == workers[w].sorted_results[1]
                    it == workers[w].item
                IN \A i, j \in 1..Len(out) :
                      i < j =>
                          \/ RelevanceScore(out[i], it) > RelevanceScore(out[j], it)
                          \/ /\ RelevanceScore(out[i], it) = RelevanceScore(out[j], it)
                             /\ FloatLeq(PriceOf(out[i]), PriceOf(out[j]))

\* two offers with one score were fetched dearer first and sorted under Balanced,
\* with a third offer of another score
C6_Witness ==
    /\ sess_sort_pref = SortBalanced
    /\ workers # <<>>
    /\ workers[1].sorted_results # <<>>
    /\ LET f == workers[1].filtered_results[1]
           it == workers[1].item
       IN /\ Len(f) = 3
          /\ RelevanceScore(f[1], it) = RelevanceScore(f[2], it)
          /\ FloatLt(PriceOf(f[2]), PriceOf(f[1]))
          /\ RelevanceScore(f[3], it) > RelevanceScore(f[1], it)

(***************************************************************************)
(* C8: when the request fails perform_search returns an empty list, and    *)
(* get_shopping_results then returns (item, []) without running the        *)
(* deduplicate, filter or sort stage.                                      *)
(***************************************************************************)
C8_FailedFetch ==
    \A w \in 1..Len(workers) :
        w \in errors_shown =>
            /\ workers[w].raw_results = <<(<<>>)>>
            /\ workers[w].pc \in {"dedup", "done"}
            /\ workers[w].unique_results = <<>>
            /\ workers[w].filtered_results = <<>>
            /\ workers[w].sorted_results = <<>>
            /\ workers[w].pc = "done" => workers[w].ret = <<(<<>>)>>
            /\ all_results # <<>> => all_results[1][workers[w].item] = <<>>

\* the request for an item the provider has offers for failed, and the call has
\* returned
C8_Witness ==
    /\ errors_shown = {1}
    /\ workers[1].pc = "done"
    /\ all_results # <<>>
    /\ Len(provider[workers[1].item]) = 3
    /\ apply_comprehensive_filters(provider[workers[1].item], workers[1].item,
                                   sess_site_pref) # <<>>

(***************************************************************************)
(* C7: in the multi-item search a failed fetch empties the offers of its   *)
(* own item only: in every interleaving and for every choice of failing    *)
(* fetches, each call that did not fail returns what it returns when no    *)
(* fetch fails, and the collected mapping has an entry for every item.     *)
(***************************************************************************)
C7_FailureIsolated ==
    /\ \A w \in 1..Len(workers) :
          (workers[w].pc = "done" /\ w \notin errors_shown) =>
              workers[w].ret[1] = ProcessResults(provider[workers[w].item], workers[w].item,
                                                 sess_site_pref, sess_sort_pref)
    /\ all_results # <<>> =>
          /\ DOMAIN all_results[1] = Range(final_items)
          /\ \A it \in Range(final_items) :
                IF \E w \in errors_shown : workers[w].item = it
                THEN all_results[1][it] \in
                         {<<>>, ProcessResults(provider[it], it, sess_site_pref, sess_sort_pref)}
                ELSE all_results[1][it] =
                         ProcessResults(provider[it], it, sess_site_pref, sess_sort_pref)

\* two items were searched, the fetch of the first failed, and the second item
\* has its offers in the mapping
C7_Witness ==
    /\ all_results # <<>>
    /\ Len(final_items) = 2
    /\ final_items[1] # final_items[2]
    /\ errors_shown = {1}
    /\ all_results[1][final_items[1]] = <<>>
    /\ all_results[1][final_items[2]] # <<>>

(***************************************************************************)
(* Direct-Link Resolver (shopping.py, get_enhanced_direct_link)            *)
(* A seller of the product-detail answer is [name, link]: name is          *)
(* seller.get("name", ""), link is <<>> when the seller has none.          *)
(***************************************************************************)
Seller(name, link) == [name |-> name, link |-> link]

\* product_choice.get("product_id") or product_choice.get("id")
ProductApiId(choice) ==
    IF choice.product_id # <<>> THEN choice.product_id ELSE choice.id

\* step 1: the offer's own link is there and is_from_correct_site accepts the offer
OwnLinkIsCorrect(choice, pref) ==
    choice.link # <<>> /\ is_from_correct_site(choice, pref)

\* site_pref_cleaned in seller_name, seller_name = seller.get("name", "").lower()
SellerNameMatches(seller, pref) ==
    Contains(Lower(seller.name), RemoveChar(Lower(pref), " "))

\* urlparse(seller_link).netloc.lower() holds one of the target domains; a link
\* urlparse rejects is skipped
SellerLinkMatches(seller, pref) ==
    /\ ~UrlParseRaises(seller.link)
    /\ \E d \in get_site_domains(pref) : Contains(Lower(Netloc(seller.link)), d)

\* the walk over a non-empty online_sellers: the first seller matching by name
\* or by link domain, else (or for "Any") the top-listed seller
PickSellerLink(sellers, pref) ==
    LET hits == {i \in 1..Len(sellers) :
                    SellerNameMatches(sellers[i], pref) \/ SellerLinkMatches(sellers[i], pref)}
    IN IF Lower(pref) # <<"a", "n", "y">> /\ hits # {}
       THEN sellers[CHOOSE i \in hits : \A j \in hits : i <= j].link
       ELSE sellers[1].link

\* a failure that is not caught: the exception leaves the function
LookupFailureEscapes(choice) == [raised |-> TRUE, link |-> <<>>]

\* except Exception: st.warning, then the final fallback returns the original link
LookupFailure(choice) == [raised |-> FALSE, link |-> <<choice.link>>]

\* step 1 returns product_choice['link']
ReturnOwnLink ==
    /\ link_pc = "start"
    /\ OwnLinkIsCorrect(product_choice, link_site_pref)
    /\ direct_link' = <<product_choice.link>>
    /\ link_pc' = "done"
    /\ UNCHANGED <<product_choice, link_site_pref, sellers_reply, lookups,
                   online_sellers, link_raised, notLink>>

\* step 1 does not return: on to step 2
OwnLinkRejected ==
    /\ link_pc = "start"
    /\ ~OwnLinkIsCorrect(product_choice, link_site_pref)
    /\ link_pc' = "id_check"
    /\ UNCHANGED <<product_choice, link_site_pref, sellers_reply, lookups,
                   online_sellers, direct_link, link_raised, notLink>>

\* if not product_api_id: return product_choice.get('link')
ReturnWithoutId ==
    /\ link_pc = "id_check"
    /\ ProductApiId(product_choice) = <<>>
    /\ direct_link' = <<product_choice.link>>
    /\ link_pc' = "done"
    /\ UNCHANGED <<product_choice, link_site_pref, sellers_reply, lookups,
                   online_sellers, link_raised, notLink>>

\* requests.get("https://serpapi.com/search.json", params=params)
SendLookup ==
    /\ link_pc = "id_check"
    /\ ProductApiId(product_choice) # <<>>
    /\ lookups' = lookups + 1
    /\ link_pc' = "lookup"
    /\ UNCHANGED <<product_choice, link_site_pref, sellers_reply,
                   online_sellers, direct_link, link_raised, notLink>>

\* the request or .json() raises
LookupFails ==
    /\ link_pc = "lookup"
    /\ sellers_reply.kind = "fail"
    /\ link_raised' = LookupFailure(product_choice).raised
    /\ direct_link' = LookupFailure(product_choice).link
    /\ link_pc' = "done"
    /\ UNCHANGED <<product_choice, link_site_pref, sellers_reply, lookups,
                   online_sellers, notLink>>

\* online_sellers = resp.get("sellers_results", {}).get("online_sellers", [])
LookupAnswers ==
    /\ link_pc = "lookup"
    /\ sellers_reply.kind = "ok"
    /\ online_sellers' = sellers_reply.sellers
    /\ link_pc' = "sellers"
    /\ UNCHANGED <<product_choice, link_site_pref, sellers_reply, lookups,
                   direct_link, link_raised, notLink>>

\* online_sellers is empty: the final fallback
ReturnNoSellers ==
    /\ link_pc = "sellers"
    /\ online_sellers = <<>>
    /\ direct_link' = <<product_choice.link>>
    /\ link_pc' = "done"
    /\ UNCHANGED <<product_choice, link_site_pref, sellers_reply, lookups,
                   online_sellers, link_raised, notLink>>

\* if online_sellers: the walk returns a seller's link
ReturnSellerLink ==
    /\ link_pc = "sellers"
    /\ online_sellers # <<>>
    /\ direct_link' = <<PickSellerLink(online_sellers, link_site_pref)>>
    /\ link_pc' = "done"
    /\ UNCHANGED <<product_choice, link_site_pref, sellers_reply, lookups,
                   online_sellers, link_raised, notLink>>

NextLink ==
    \/ ReturnOwnLink
    \/ OwnLinkRejected
    \/ ReturnWithoutId
    \/ SendLookup
    \/ LookupFails
    \/ LookupAnswers
    \/ ReturnNoSellers
    \/ ReturnSellerLink

(***************************************************************************)
(* The chosen offers, preferences and provider answers the resolver is run *)
(* on: answers of up to MaxSellers sellers, or a failed request            *)
(***************************************************************************)
MaxSellers == 2

LinkChoice(pid, id, link, source) ==
    Offer(pid, id, link, <<"i", "P", "a", "d">>, PriceStr(<<"$", "3", "0", "0">>), source, Absent, Absent, FALSE)

LinkChoices ==
    { LinkChoice(<<"p", "1">>, <<>>, <<"h", "t", "t", "p", "s", ":", "/", "/", "w", "w", "w", ".", "a", "m", "a", "z", "o", "n", ".", "c", "o", "m", "/", "d", "p", "/", "1">>, <<"A", "m", "a", "z", "o", "n", ".", "c", "o", "m">>),
      LinkChoice(<<"p", "2">>, <<>>, <<"h", "t", "t", "p", "s", ":", "/", "/", "w", "w", "w", ".", "e", "b", "a", "y", ".", "c", "o", "m", "/", "i", "/", "2">>, <<"e", "B", "a", "y">>),
      LinkChoice(<<>>, <<"i", "3">>, <<>>, <<"e", "B", "a", "y">>),
      LinkChoice(<<>>, <<>>, <<"h", "t", "t", "p", "s", ":", "/", "/", "w", "w", "w", ".", "e", "b", "a", "y", ".", "c", "o", "m", "/", "i", "/", "4">>, <<"e", "B", "a", "y">>),
      LinkChoice(<<>>, <<>>, <<>>, <<"B", "e", "s", "t", " ", "B", "u", "y">>),
      LinkChoice(<<"p", "6">>, <<>>, <<"h", "t", "t", "p", ":", "/", "/", "[", "x">>, <<>>) }

LinkPrefs == { <<"A", "n", "y">>, <<"A", "m", "a", "z", "o", "n">>, <<"B", "e", "s", "t", " ", "B", "u", "y">>, <<"W", "a", "l", "m", "a", "r", "t">> }

SellerCatalogue ==
    << Seller(<<"A", "m", "a", "z", "o", "n", ".", "c", "o", "m">>, <<"h", "t", "t", "p", "s", ":", "/", "/", "w", "w", "w", ".", "a", "m", "a", "z", "o", "n", ".", "c", "o", "m", "/", "d", "p", "/", "9">>),
       Seller(<<"B", "e", "s", "t", " ", "B", "u", "y">>, <<"h", "t", "t", "p", "s", ":", "/", "/", "g", "o", "o", "g", "l", "e", ".", "c", "o", "m", "/", "u", "?", "q", "=", "b", "e", "s", "t", "b", "u", "y", ".", "c", "o", "m">>),
       Seller(<<"S", "h", "o", "p">>, <<"h", "t", "t", "p", "s", ":", "/", "/", "w", "w", "w", ".", "B", "e", "s", "t", "B", "u", "y", ".", "c", "o", "m", "/", "p">>),
       Seller(<<"e", "B", "a", "y">>, <<>>),
       Seller(<<"W", "a", "l", "m", "a", "r", "t", " ", "S", "e", "l", "l", "e", "r">>, <<"h", "t", "t", "p", ":", "/", "/", "[", "w">>),
       Seller(<<>>, <<"h", "t", "t", "p", "s", ":", "/", "/", "w", "w", "w", ".", "e", "b", "a", "y", ".", "c", "o", "m", "/", "i", "/", "9">>) >>

SellerLists ==
    { [i \in DOMAIN ix |-> SellerCatalogue[ix[i]]] :
        ix \in { f \in UNION {[1..n -> DOMAIN SellerCatalogue] : n \in 0..MaxSellers} :
                    \A i, j \in DOMAIN f : i # j => f[i] # f[j] } }

SellerReplies ==
    { [kind |-> "fail", sellers |-> <<>>] }
        \cup { [kind |-> "ok", sellers |-> ss] : ss \in SellerLists }

InitLink ==
    /\ product_choice \in LinkChoices
    /\ link_site_pref \in LinkPrefs
    /\ sellers_reply \in SellerReplies
    /\ link_pc = "start"
    /\ lookups = 0
    /\ online_sellers = <<>>
    /\ direct_link = <<>>
    /\ link_raised = FALSE
    /\ QueryIdle /\ DedupIdle /\ FilterIdle /\ PipelineIdle /\ SessionIdle /\ SortIdle

\* one call of get_enhanced_direct_link on every choice, preference and answer
SpecLink == InitLink /\ [][NextLink]_vars

(***************************************************************************)
(* C11: get_enhanced_direct_link never raises; when the chosen offer has   *)
(* no product identifier, when the seller lookup fails, or when the lookup *)
(* returns no sellers, it returns the offer's original link (absent when   *)
(* the offer has none) and sends no further lookup: none at all without an *)
(* identifier, none after the one that failed or came back empty.          *)
(***************************************************************************)
C11_FallsBackToOriginalLink ==
    /\ ~link_raised
    /\ lookups <= 1
    /\ link_pc = "done" =>
          /\ direct_link # <<>>
          /\ ProductApiId(product_choice) = <<>> =>
                direct_link = <<product_choice.link>> /\ lookups = 0
          /\ (lookups = 1 /\ sellers_reply.kind = "fail") =>
                direct_link = <<product_choice.link>>
          /\ (lookups = 1 /\ sellers_reply.kind = "ok" /\ sellers_reply.sellers = <<>>) =>
                direct_link = <<product_choice.link>>

\* the lookup for an offer with an identifier and no link failed, and the
\* function returned the absent link
C11_Witness ==
    /\ link_pc = "done"
    /\ lookups = 1
    /\ sellers_reply.kind = "fail"
    /\ ProductApiId(product_choice) # <<>>
    /\ product_choice.link = <<>>
    /\ direct_link = <<<<>>>>

(***************************************************************************)
(* C12: when the lookup returns a non-empty seller list, the resolver      *)
(* returns, for a specific retailer, the link of the first seller in list  *)
(* order whose name or link host matches the retailer; when no seller      *)
(* matches, or for "Any", the link of the first seller of the list.  A     *)
(* seller's name matches the retailer as an offer's source does in         *)
(* is_from_correct_site: the retailer's name, lowercased and without       *)
(* spaces, occurs in the seller's name, lowercased and without spaces.     *)
(***************************************************************************)
SellerNamesRetailer(seller, pref) ==
    Contains(RemoveChar(Lower(seller.name), " "), RemoveChar(Lower(pref), " "))

FirstMatchingSellerLink(sellers, pref) ==
    LET hits == {i \in 1..Len(sellers) :
                    SellerNamesRetailer(sellers[i], pref) \/ SellerLinkMatches(sellers[i], pref)}
    IN IF Lower(pref) # <<"a", "n", "y">> /\ hits # {}
       THEN sellers[CHOOSE i \in hits : \A j \in hits : i <= j].link
       ELSE sellers[1].link

C12_FirstMatchingSeller ==
    (link_pc = "done" /\ lookups = 1 /\ sellers_reply.kind = "ok"
        /\ sellers_reply.sellers # <<>>) =>
        direct_link = <<FirstMatchingSellerLink(sellers_reply.sellers, link_site_pref)>>

(***************************************************************************)
(* The Sorter on its own: sort_results called on every list of up to       *)
(* MaxSort offers, with prices that are absent, parseable, unparseable or  *)
(* not a string, ratings that are absent or numbers, and review counts     *)
(* that are absent, integers or not an integer.                            *)
(***************************************************************************)
MaxSort == 3

SortOffer(title, price, rating, reviews) ==
    Offer(<<>>, <<>>, <<>>, title, price, <<"S", "h", "o", "p">>, rating, reviews, FALSE)

LongTitle == <<"i", "P", "a", "d", " ">> \o [i \in 1..100 |-> "x"]

SortCatalogue ==
    << SortOffer(<<"i", "P", "a", "d">>, PriceStr(<<"$", "3", "2", "9", ".", "0", "0">>), Num(45), Num(100)),
       SortOffer(<<"A", "p", "p", "l", "e", " ", "i", "P", "a", "d">>, PriceStr(<<"$", "2", "9", "9", ".", "0", "0">>), Num(45), Num(100)),
       SortOffer(<<"i", "P", "a", "d", " ", "P", "r", "o">>, NoPrice, Num(48), Num(2000)),
       SortOffer(<<"i", "P", "a", "d", " ", "M", "i", "n", "i">>, PriceStr(<<"N", "/", "A">>), Absent, Absent),
       SortOffer(<<"i", "P", "a", "d", " ", "A", "i", "r">>, PriceStr(<<"$", "2", "4", "9", ".", "5", "0">>), Absent, Absent),
       SortOffer(<<"i", "P", "a", "d", " ", "9">>, PriceOther, Num(40), Null),
       SortOffer(<<"T", "a", "b", "l", "e", "t">>, PriceStr(<<"$", "1", ",", "1", "9", "9">>), Absent, Num(4)),
       SortOffer(LongTitle, PriceStr(<<"$", "3", "1", "0">>), Num(30), Absent) >>

SortLists ==
    { [i \in DOMAIN ix |-> SortCatalogue[ix[i]]] :
        ix \in { f \in UNION {[1..n -> DOMAIN SortCatalogue] : n \in 0..MaxSort} :
                    \A i, j \in DOMAIN f : i # j => f[i] # f[j] } }

SortItems == { <<"i", "p", "a", "d">>, <<"i", "P", "a", "d", " ", "P", "r", "o">> }

InitSort ==
    /\ to_sort \in SortLists
    /\ sort_policy \in { SortBalanced, SortCheapest, SortHighestRated }
    /\ sort_item \in SortItems
    /\ sort_out = <<>>
    /\ QueryIdle /\ DedupIdle /\ FilterIdle /\ PipelineIdle /\ LinkIdle /\ SessionIdle

\* sorted_results = sort_results(filtered_results, sort_pref, item)
SortCall ==
    /\ sort_out = <<>>
    /\ sort_out' = <<sort_results(to_sort, sort_policy, sort_item)>>
    /\ UNCHANGED <<to_sort, sort_policy, sort_item, notSort>>

NextSort == SortCall

SpecSort == InitSort /\ [][NextSort]_vars

(***************************************************************************)
(* C13: under Highest Rated, sort_results returns the offers in            *)
(* non-increasing rating order (an offer without a rating counting as 0)   *)
(* whenever at least one offer carries a rating; when none does, it        *)
(* returns exactly what the Balanced policy returns for the same offers    *)
(* and item.                                                               *)
(***************************************************************************)
RatingOf(o) == IF o.rating.kind = "num" THEN o.rating.val ELSE 0

\* the offers of out are those of in, each as often (fields sort_results adds aside)
SameOffers(out, in) ==
    /\ Len(out) = Len(in)
    /\ \A o \in Range(in) :
          Cardinality({i \in 1..Len(in) : in[i] = o})
              = Cardinality({i \in 1..Len(out) :
                                [out[i] EXCEPT !.numeric_price = Absent,
                                               !.relevance_score = Absent] = o})

C13_HighestRated ==
    (sort_out # <<>> /\ sort_policy = SortHighestRated) =>
        LET out == sort_out[1]
        IN IF \E i \in 1..Len(to_sort) : to_sort[i].rating.kind # "absent"
           THEN /\ SameOffers(out, to_sort)
                /\ \A i, j \in 1..Len(out) : i < j => RatingOf(out[i]) >= RatingOf(out[j])
           ELSE out = sort_results(to_sort, SortBalanced, sort_item)

\* three offers handed over lowest rating first, the first of them unrated, came
\* back under Highest Rated with the best rated first and the unrated last
C13_Witness ==
    /\ sort_out # <<>>
    /\ sort_policy = SortHighestRated
    /\ Len(to_sort) = 3
    /\ to_sort[1].rating.kind = "absent"
    /\ 0 < RatingOf(to_sort[2])
    /\ RatingOf(to_sort[2]) < RatingOf(to_sort[3])
    /\ sort_out[1][1].title = to_sort[3].title
    /\ sort_out[1][3].title = to_sort[1].title

(***************************************************************************)
(* C14: the relevance score of an offer is 100 for each item word that is  *)
(* also in the title, plus 1000 if the lowercased item is a substring of   *)
(* the lowercased title, plus rating x 20 whenever the rating is a number, *)
(* plus min(reviews / 4, 150) whenever the review count is an integer,     *)
(* minus 25 if the title is longer than 100 characters; each of the two    *)
(* bonuses depends on its own field only.  Scores are in twentieths of a   *)
(* point, ratings in tenths of a star.                                     *)
(***************************************************************************)
RatingBonus(o) == IF o.rating.kind = "num" THEN 40 * o.rating.val ELSE 0

ReviewBonus(o) ==
    IF o.reviews.kind = "num"
    THEN (IF 5 * o.reviews.val < 3000 THEN 5 * o.reviews.val ELSE 3000)
    ELSE 0

IndependentScore(o, it) ==
    2000 * Cardinality(WordsOf(Lower(it)) \cap WordsOf(Lower(o.title)))
    + (IF Contains(Lower(o.title), Lower(it)) THEN 20000 ELSE 0)
    + RatingBonus(o)
    + ReviewBonus(o)
    - (IF Len(o.title) > 100 THEN 500 ELSE 0)

C14_ScoreFormula ==
    (sort_out # <<>> /\ sort_policy = SortBalanced) =>
        \A i \in 1..Len(sort_out[1]) :
            sort_out[1][i].relevance_score = Num(IndependentScore(sort_out[1][i], sort_item))

(***************************************************************************)
(* C15: sort_results annotates every offer whose raw price is absent or    *)
(* cannot be parsed with the numeric price +infinity, so that under        *)
(* Cheapest every such offer comes after every offer whose price parses to *)
(* a finite number.                                                        *)
(***************************************************************************)
RawPriceUsable(o) == o.price.kind = "str" /\ PriceOf(o).kind # "err"

C15_UnusablePriceLast ==
    sort_out # <<>> =>
        LET out == sort_out[1]
        IN /\ \A i \in 1..Len(out) :
                 ~RawPriceUsable(out[i]) => out[i].numeric_price = FloatInf
           /\ sort_policy = SortCheapest =>
                 \A i, j \in 1..Len(out) :
                     (~RawPriceUsable(out[i]) /\ RawPriceUsable(out[j])
                         /\ PriceOf(out[j]).kind = "num") => j < i

(***************************************************************************)
(* Searches that follow one another in a session: while filters_ready is   *)
(* set, every rerun of the script submits the calls again (ShopAI.py,      *)
(* section 7); st.session_state, show_initial_count included, lives on     *)
(* from one run to the next, the messages of the page do not.              *)
(***************************************************************************)
NewSearch ==
    /\ all_results # <<>>
    /\ workers' = Submitted(final_items)
    /\ all_results' = <<>>
    /\ info_shown' = {}
    /\ errors_shown' = {}
    /\ UNCHANGED <<final_items, sess_site_pref, sess_sort_pref, provider,
                   show_initial_count, notPipeline>>

NextRerun ==
    \/ NextSearch
    \/ NewSearch

SpecRerun == InitFanOut /\ [][NextRerun]_vars

(***************************************************************************)
(* C16: the "initial result count" message is shown once per search: in    *)
(* one multi-item search, under every interleaving of the parallel calls'  *)
(* check of show_initial_count and their write of False to it, at most one *)
(* call displays the count; and every search, a later one too, whose       *)
(* calls have returned with at least one successful fetch has displayed it *)
(* once.                                                                   *)
(***************************************************************************)
C16_CountShownOncePerSearch ==
    /\ Cardinality(info_shown) <= 1
    /\ (all_results # <<>> /\ \E w \in 1..Len(workers) : w \notin errors_shown) =>
          Cardinality(info_shown) = 1

(***************************************************************************)
(* Session state (state.py) and the handlers of ShopAI.py that write it.   *)
(* Every UI event reruns the script; an action is the run that follows one *)
(* event, as far as it writes st.session_state.  The search that section 7 *)
(* runs while filters_ready is set is NextSearch; it writes none of the    *)
(* keys below.  why_explanations is modelled by the items explained.       *)
(***************************************************************************)
ModeOptions == {"Upload Image", "Chat with AI"}
SiteOptions == { <<"A", "n", "y">>, <<"W", "a", "l", "m", "a", "r", "t">>, <<"A", "m", "a", "z", "o", "n">>, <<"T", "a", "r", "g", "e", "t">>, <<"B", "e", "s", "t", " ", "B", "u", "y">> }
SortOptions == { SortBalanced, SortCheapest, SortHighestRated }

\* the radio returns another mode: reset_state_on_mode_change, then st.rerun()
ChangeMode(m) ==
    /\ m # mode_last
    /\ mode' = m
    /\ extracted_items' = <<>>
    /\ final_items' = <<>>
    /\ filters_ready' = FALSE
    /\ why_explanations' = {}
    /\ mode_last' = m
    /\ UNCHANGED <<sess_site_pref, sess_sort_pref, notSession>>

\* section 4: the OCR or the chat produced a non-empty list
ExtractList(extracted) ==
    /\ extracted # <<>>
    /\ extracted_items' = extracted
    /\ UNCHANGED <<mode, mode_last, final_items, filters_ready, why_explanations,
                   sess_site_pref, sess_sort_pref, notSession>>

\* a Confirm List that leaves filters_ready as it is
ConfirmListKeepsReady(edited, site, sort) ==
    /\ extracted_items # <<>>
    /\ final_items' = edited
    /\ IF edited # <<>>
       THEN sess_site_pref' = site /\ sess_sort_pref' = sort
       ELSE UNCHANGED <<sess_site_pref, sess_sort_pref>>
    /\ UNCHANGED <<mode, mode_last, extracted_items, filters_ready, why_explanations,
                   notSession>>

\* section 5: Confirm List takes the edited table, rows left empty dropped; the
\* selectboxes of section 6 are shown when the list is not empty
ConfirmList(edited, site, sort) ==
    /\ extracted_items # <<>>
    /\ final_items' = edited
    /\ filters_ready' = FALSE
    /\ IF edited # <<>>
       THEN sess_site_pref' = site /\ sess_sort_pref' = sort
       ELSE UNCHANGED <<sess_site_pref, sess_sort_pref>>
    /\ UNCHANGED <<mode, mode_last, extracted_items, why_explanations, notSession>>

\* section 6: another retailer or sort order is selected
SelectFilters(site, sort) ==
    /\ final_items # <<>>
    /\ sess_site_pref' = site
    /\ sess_sort_pref' = sort
    /\ UNCHANGED <<mode, mode_last, extracted_items, final_items, filters_ready,
                   why_explanations, notSession>>

\* section 6: Find Best Picks, shown when final_items is not empty
FindBestPicks ==
    /\ final_items # <<>>
    /\ filters_ready' = TRUE
    /\ why_explanations' = {}
    /\ UNCHANGED <<mode, mode_last, extracted_items, final_items,
                   sess_site_pref, sess_sort_pref, notSession>>

\* section 7: "Why?" pressed under the picks of an item
WhyPressed(it) ==
    /\ filters_ready
    /\ it \in Range(final_items)
    /\ why_explanations' = why_explanations \cup {it}
    /\ UNCHANGED <<mode, mode_last, extracted_items, final_items, filters_ready,
                   sess_site_pref, sess_sort_pref, notSession>>

\* the lists a user can extract or confirm: up to MaxList items
MaxList == 2

ItemLists == UNION {[1..n -> PipelineItems] : n \in 0..MaxList}

\* initialize_state
InitSession ==
    /\ mode = "Chat with AI"
    /\ mode_last = "Chat with AI"
    /\ extracted_items = <<>>
    /\ final_items = <<>>
    /\ filters_ready = FALSE
    /\ sess_site_pref = <<"A", "n", "y">>
    /\ sess_sort_pref = <<"D", "e", "f", "a", "u", "l", "t">>
    /\ why_explanations = {}
    /\ provider = <<>> /\ workers = <<>> /\ show_initial_count = TRUE
    /\ info_shown = {} /\ errors_shown = {} /\ all_results = <<>>
    /\ QueryIdle /\ DedupIdle /\ FilterIdle /\ LinkIdle /\ SortIdle

NextSession ==
    \/ \E m \in ModeOptions : ChangeMode(m)
    \/ \E xs \in ItemLists : ExtractList(xs)
    \/ \E xs \in ItemLists, site \in SiteOptions, sort \in SortOptions :
          ConfirmList(xs, site, sort)
    \/ \E site \in SiteOptions, sort \in SortOptions : SelectFilters(site, sort)
    \/ FindBestPicks
    \/ \E it \in PipelineItems : WhyPressed(it)

SpecSession == InitSession /\ [][NextSession]_vars

(***************************************************************************)
(* C17: in every session state that UI events can reach, filters_ready     *)
(* implies that final_items is not empty; a step that replaces or clears   *)
(* final_items (Confirm List, a mode change) leaves filters_ready false,   *)
(* and a mode change also clears extracted_items and why_explanations and  *)
(* sets mode_last to the new mode.                                         *)
(***************************************************************************)
ReadyImpliesItems == filters_ready => final_items # <<>>

HandlersReset ==
    /\ final_items' # final_items => ~filters_ready'
    /\ mode_last' # mode_last =>
          /\ extracted_items' = <<>> /\ final_items' = <<>> /\ ~filters_ready'
          /\ why_explanations' = {} /\ mode_last' = mode'

C17_ReadyImpliesItems == []ReadyImpliesItems /\ [][HandlersReset]_vars

\* picks were shown and explained (filters_ready was set), then the user emptied
\* the table and confirmed it: the list is empty and filters_ready is false again
C17_Witness ==
    /\ why_explanations # {}
    /\ extracted_items # <<>>
    /\ final_items = <<>>
    /\ ~filters_ready

====
